---------------------------- MODULE Spec2Model ----------------------------
(***************************************************************************)
(* Model of the dataset tools of voice_processing: the canonical           *)
(* fingerprint of a record (json.dumps(..., sort_keys=True)), the overlap  *)
(* count of two collections, the content hash, the position mapping, the   *)
(* usage-frequency count and golden test, the duplicate-grouping loop, the *)
(* JSONL loaders, the per-unit download and sort loops, the duplicate      *)
(* verdicts, prepare_unique_dataset and the constrained selector           *)
(* prepare_golden_dataset.                                                 *)
(*                                                                         *)
(* Text is modelled character by character: a Python str is a sequence of  *)
(* one-character strings, compared by code point as Python compares it.    *)
(***************************************************************************)
EXTENDS Integers, Sequences, FiniteSets, TLC

VARIABLES
    \* canonicalizer run: two records and their fingerprints
    rec1, rec2, fp1, fp2, fpc,
    \* similarity engine run: two collections and the results computed
    colA, colB, simAB, simBA, hashA, hashB, positions,
    \* usage-frequency run: the inputs, the loop over top_miner_uids, the results
    script, eval_data, miner_files, min_usage_pct, uid_pos, entry_counts,
    golden, highly_used,
    \* duplicate-grouping run of compare_datasets
    miner_datasets, threshold, processed, duplicate_groups, similarity_matrix,
    i_pos, j_pos, similar_miners, summary, cpc,
    \* load_jsonl call: the defining module, the file's lines, max_rows, the outcome
    ld_module, ld_lines, ld_max_rows, ld_result,
    \* per-unit loop: the tool, its units, the miner directories' files, the loop position, the outcome lists
    bat_tool, bat_units, bat_files, bat_pos, bat_downloaded, bat_failed,
    bat_skipped, bat_visited, bpc,
    \* duplicate verdicts: an overlap count, the miner file's size, what each tool reports
    vd_overlap, vd_total, vd_selector, vd_check, vd_unique,
    \* prepare_unique_dataset run: the inputs, the fallback loop, the file written
    uq_eval, uq_miners, uq_num_needed, uq_from_main, uq_threshold, uq_selected,
    uq_candidates, uq_cand_pos, uq_written, uqpc,
    \* prepare_golden_dataset run: the inputs, the golden list and used set, the selection, the loop position, the results
    sel_eval, sel_top_files, sel_dir_files, sel_target_size, sel_min_pct,
    sel_ensure_unique, sel_reused_cap, golden_indices, used_entries_set,
    selected_indices, selected_entries, selected_positions, golden_added,
    golden_reused, golden_unique, g_pos, sel_shortfall, sel_high_overlap,
    sel_output, spc,
    \* miner-versus-evaluation check: the two datasets, what compare_datasets and check_miner_vs_eval report
    ev_eval, ev_miner, ev_valid_mark, ev_stats

fpVars == <<rec1, rec2, fp1, fp2, fpc>>
simVars == <<colA, colB, simAB, simBA, hashA, hashB, positions>>
useVars == <<script, eval_data, miner_files, min_usage_pct, uid_pos,
             entry_counts, golden, highly_used>>
cmpVars == <<miner_datasets, threshold, processed, duplicate_groups,
             similarity_matrix, i_pos, j_pos, similar_miners, summary, cpc>>
ldVars == <<ld_module, ld_lines, ld_max_rows, ld_result>>
batVars == <<bat_tool, bat_units, bat_files, bat_pos, bat_downloaded,
             bat_failed, bat_skipped, bat_visited, bpc>>
vdVars == <<vd_overlap, vd_total, vd_selector, vd_check, vd_unique>>
uqVars == <<uq_eval, uq_miners, uq_num_needed, uq_from_main, uq_threshold,
            uq_selected, uq_candidates, uq_cand_pos, uq_written, uqpc>>
selVars == <<sel_eval, sel_top_files, sel_dir_files, sel_target_size,
             sel_min_pct, sel_ensure_unique, sel_reused_cap, golden_indices,
             used_entries_set, selected_indices, selected_entries,
             selected_positions, golden_added, golden_reused, golden_unique,
             g_pos, sel_shortfall, sel_high_overlap, sel_output, spc>>
evVars == <<ev_eval, ev_miner, ev_valid_mark, ev_stats>>
vars == <<fpVars, simVars, useVars, cmpVars, ldVars, batVars, vdVars, uqVars,
          selVars, evVars>>

\* A result that has not been computed yet is None; a computed one is Some(v).
None    == <<>>
Some(v) == <<v>>
Val(o)  == o[1]

Min(a, b) == IF a <= b THEN a ELSE b

-----------------------------------------------------------------------------
(* JSON values as json.loads builds them.  A dict keeps its insertion      *)
(* order: items is the sequence of its (key, value) pairs, keys distinct.  *)
(* Every value has the same four fields so that any two can be compared.   *)

JInt(n)     == [t |-> "int",   n |-> n, s |-> <<>>, items |-> <<>>]
JFloat(n)   == [t |-> "float", n |-> n, s |-> <<>>, items |-> <<>>]  \* the float n.0
JStr(s)     == [t |-> "str",   n |-> 0, s |-> s,    items |-> <<>>]
JDict(its)  == [t |-> "dict",  n |-> 0, s |-> <<>>, items |-> its]
Item(k, v)  == [k |-> k, v |-> v]

\* Code point of the characters the serializer can emit here.
Code(c) ==
    CASE c = " "  -> 32
      [] c = "\"" -> 34
      [] c = ","  -> 44
      [] c = "."  -> 46
      [] c = "0"  -> 48
      [] c = "1"  -> 49
      [] c = "2"  -> 50
      [] c = "3"  -> 51
      [] c = "4"  -> 52
      [] c = "5"  -> 53
      [] c = "6"  -> 54
      [] c = "7"  -> 55
      [] c = "8"  -> 56
      [] c = "9"  -> 57
      [] c = ":"  -> 58
      [] c = "a"  -> 97
      [] c = "b"  -> 98
      [] c = "{"  -> 123
      [] c = "}"  -> 125

\* Python's str < str: lexicographic by code point, a proper prefix is less.
StrLess(a, b) ==
    \/ Len(a) < Len(b) /\ SubSeq(b, 1, Len(a)) = a
    \/ \E i \in 1..Min(Len(a), Len(b)) :
          /\ SubSeq(a, 1, i - 1) = SubSeq(b, 1, i - 1)
          /\ Code(a[i]) < Code(b[i])

DigitChar(d) ==
    CASE d = 0 -> "0" [] d = 1 -> "1" [] d = 2 -> "2" [] d = 3 -> "3"
      [] d = 4 -> "4" [] d = 5 -> "5" [] d = 6 -> "6" [] d = 7 -> "7"
      [] d = 8 -> "8" [] d = 9 -> "9"

\* Decimal text of a natural number.
RECURSIVE IntText(_)
IntText(n) == IF n < 10 THEN <<DigitChar(n)>>
              ELSE IntText(n \div 10) \o <<DigitChar(n % 10)>>

\* sort_keys=True: the items of a dict in ascending order of key.
UnsortedItems(items) == items

SortedItems(items) ==
    LET RECURSIVE Sort(_)
        Sort(s) ==
            IF s = <<>> THEN <<>>
            ELSE LET t == Sort(SubSeq(s, 1, Len(s) - 1))
                     x == s[Len(s)]
                     n == Cardinality({i \in 1..Len(t) : ~StrLess(x.k, t[i].k)})
                 IN  SubSeq(t, 1, n) \o <<x>> \o SubSeq(t, n + 1, Len(t))
    IN  Sort(items)

\* json.dumps(value, sort_keys=True) with the default separators ", " and ": ".
RECURSIVE json_dumps(_)
json_dumps(v) ==
    CASE v.t = "int"   -> IntText(v.n)
      [] v.t = "float" -> IntText(v.n) \o <<".", "0">>
      [] v.t = "str"   -> <<"\"">> \o v.s \o <<"\"">>
      [] v.t = "dict"  ->
            LET its == SortedItems(v.items)
                RECURSIVE Body(_)
                Body(i) ==
                    IF i > Len(its) THEN <<>>
                    ELSE (IF i > 1 THEN <<",", " ">> ELSE <<>>)
                         \o <<"\"">> \o its[i].k \o <<"\"", ":", " ">>
                         \o json_dumps(its[i].v) \o Body(i + 1)
            IN  <<"{">> \o Body(1) \o <<"}">>

\* The key/value structure of a value: what the value is, whatever the
\* order its keys were inserted in.
RECURSIVE Struct(_)
Struct(v) ==
    [t |-> v.t, n |-> v.n, s |-> v.s,
     m |-> {<<v.items[i].k, Struct(v.items[i].v)>> : i \in 1..Len(v.items)}]

-----------------------------------------------------------------------------
(* The records the canonicalizer is run on: dicts over Keys whose values   *)
(* are atoms or dicts one level down.                                      *)

Keys       == {<<"a">>, <<"b">>}
Atoms      == {JInt(1), JFloat(1), JStr(<<"1">>)}
InnerAtoms == {JInt(1), JStr(<<"1">>)}

DictsOver(vals) ==
    UNION { { JDict(its) : its \in
                { f \in [1..n -> {Item(k, v) : k \in Keys, v \in vals}] :
                    \A i, j \in 1..n : i # j => f[i].k # f[j].k } }
            : n \in 0..Cardinality(Keys) }

InnerDicts == DictsOver(InnerAtoms)
Records    == DictsOver(Atoms \cup InnerDicts)

FpInit ==
    /\ rec1 \in Records
    /\ rec2 \in Records
    /\ fp1 = None /\ fp2 = None
    /\ fpc = "start"

\* Both records are fingerprinted.
Canonicalize ==
    /\ fpc = "start"
    /\ fp1' = Some(json_dumps(rec1))
    /\ fp2' = Some(json_dumps(rec2))
    /\ fpc' = "done"
    /\ UNCHANGED <<rec1, rec2>>

-----------------------------------------------------------------------------
(* Similarity engine: collections are sequences of records.                *)

\* P2 is P1 with its keys inserted in the other order.
P1 == JDict(<<Item(<<"a">>, JInt(1)), Item(<<"b">>, JStr(<<"1">>))>>)
P2 == JDict(<<Item(<<"b">>, JStr(<<"1">>)), Item(<<"a">>, JInt(1))>>)
P3 == JDict(<<Item(<<"a">>, JDict(<<Item(<<"b">>, JInt(1))>>))>>)
Pool == {P1, P2, P3}

MaxLen == 3
Collections == UNION {[1..n -> Pool] : n \in 0..MaxLen}

\* set(json.dumps(item, sort_keys=True) for item in jsonl_data)
jsonl_to_set(jsonl_data) ==
    {json_dumps(jsonl_data[i]) : i \in 1..Len(jsonl_data)}

count_similar_difference(jsonl1, jsonl2) ==
    Cardinality(jsonl_to_set(jsonl1) \ jsonl_to_set(jsonl2))

count_similar_per_item(jsonl1, jsonl2) ==
    Cardinality({i \in 1..Len(jsonl1) :
                    json_dumps(jsonl1[i]) \in jsonl_to_set(jsonl2)})

\* len(set1 & set2)
count_similar(jsonl1, jsonl2) ==
    Cardinality(jsonl_to_set(jsonl1) \cap jsonl_to_set(jsonl2))

\* sorted(list of str): ascending, equal strings kept.
RECURSIVE sorted_strs(_)
sorted_strs(s) ==
    IF s = <<>> THEN <<>>
    ELSE LET t == sorted_strs(SubSeq(s, 1, Len(s) - 1))
             x == s[Len(s)]
             n == Cardinality({i \in 1..Len(t) : ~StrLess(x, t[i])})
         IN  SubSeq(t, 1, n) \o <<x>> \o SubSeq(t, n + 1, Len(t))

\* sorted(list of int)
RECURSIVE sorted_ints(_)
sorted_ints(s) ==
    IF s = <<>> THEN <<>>
    ELSE LET t == sorted_ints(SubSeq(s, 1, Len(s) - 1))
             x == s[Len(s)]
             n == Cardinality({i \in 1..Len(t) : t[i] <= x})
         IN  SubSeq(t, 1, n) \o <<x>> \o SubSeq(t, n + 1, Len(t))

\* The elements of a set of strings as a sequence, ascending.
RECURSIVE SetToSortedStrs(_)
SetToSortedStrs(S) ==
    IF S = {} THEN <<>>
    ELSE LET m == CHOOSE x \in S : \A y \in S : y = x \/ StrLess(x, y)
         IN  <<m>> \o SetToSortedStrs(S \ {m})

unsorted_entries(data) == [i \in 1..Len(data) |-> json_dumps(data[i])]

sorted_set_entries(data) == SetToSortedStrs(jsonl_to_set(data))

\* sorted([json.dumps(item, sort_keys=True) for item in data])
sorted_entries(data) ==
    sorted_strs([i \in 1..Len(data) |-> json_dumps(data[i])])

\* ''.join(sorted_entries): the text that get_dataset_hash digests.
combined(data) ==
    LET e == sorted_entries(data)
        RECURSIVE Join(_)
        Join(i) == IF i > Len(e) THEN <<>> ELSE e[i] \o Join(i + 1)
    IN  Join(1)

\* eval_set_to_idx: fingerprint -> first 0-based position in evals.
eval_set_to_idx(evals) ==
    [f \in jsonl_to_set(evals) |->
        CHOOSE i \in 0..(Len(evals) - 1) :
            /\ json_dumps(evals[i + 1]) = f
            /\ \A j \in 0..(i - 1) : json_dumps(evals[j + 1]) # f]

\* The indices list before it is sorted: one element per miner entry
\* whose fingerprint is in the evaluation index.
RECURSIVE indices_of(_, _)
indices_of(miner_data, idx) ==
    IF miner_data = <<>> THEN <<>>
    ELSE LET f == json_dumps(Head(miner_data))
         IN  (IF f \in DOMAIN idx THEN <<idx[f]>> ELSE <<>>)
             \o indices_of(Tail(miner_data), idx)

find_entry_positions(miner_data, evals) ==
    sorted_ints(indices_of(miner_data, eval_set_to_idx(evals)))

SimInit ==
    /\ colA \in Collections
    /\ colB \in Collections
    /\ simAB = None /\ simBA = None
    /\ hashA = None /\ hashB = None
    /\ positions = None

\* count_similar is called on the two collections, in both directions.
CountSimilar ==
    /\ simAB = None
    /\ simAB' = Some(count_similar(colA, colB))
    /\ simBA' = Some(count_similar(colB, colA))
    /\ UNCHANGED <<colA, colB, hashA, hashB, positions>>

\* get_dataset_hash digests each collection.
GetDatasetHash ==
    /\ hashA = None
    /\ hashA' = Some(combined(colA))
    /\ hashB' = Some(combined(colB))
    /\ UNCHANGED <<colA, colB, simAB, simBA, positions>>

\* find_entry_positions(miner_data = colA, eval_data = colB)
FindEntryPositions ==
    /\ positions = None
    /\ positions' = Some(find_entry_positions(colA, colB))
    /\ UNCHANGED <<colA, colB, simAB, simBA, hashA, hashB>>

-----------------------------------------------------------------------------
(* Usage-frequency analyzer: find_golden_entries of                        *)
(* prepare_golden_dataset.py and the top-level loop of                     *)
(* analyze_top_miners.py.  miner_files[uid] is None when                   *)
(* data/miner_<uid>/data.jsonl does not exist, else Some(its records).     *)
(* A Python dict is a sequence of (key, value) pairs in insertion order.   *)

NumUids == 3
top_miner_uids == [k \in 1..NumUids |-> k]

EvalChoices  == {<<P1, P3>>, <<P3, P1, P3>>, <<P1>>}
MinerChoices == {<<P1>>, <<P3>>, <<P2, P1>>, <<P1, P3>>}
MinUsagePcts == {50, 60, 100}

Range(s) == {s[i] : i \in 1..Len(s)}

\* d.get(key, 0) on a dict held as a sequence of [idx, count] pairs.
GetCount(d, key) ==
    IF \E i \in 1..Len(d) : d[i].idx = key
    THEN (CHOOSE e \in Range(d) : e.idx = key).count
    ELSE 0

\* d[key] = d.get(key, 0) + 1: a new key goes to the end.
Increment(d, key) ==
    IF \E i \in 1..Len(d) : d[i].idx = key
    THEN [i \in 1..Len(d) |->
            IF d[i].idx = key THEN [idx |-> key, count |-> d[i].count + 1]
            ELSE d[i]]
    ELSE Append(d, [idx |-> key, count |-> 1])

\* for idx in indices: entry_counts[idx] += 1
RECURSIVE CountAll(_, _)
CountAll(d, indices) ==
    IF indices = <<>> THEN d
    ELSE CountAll(Increment(d, Head(indices)), Tail(indices))

\* Number of requested uids whose data file exists.
total_miners ==
    Cardinality({k \in 1..Len(top_miner_uids) :
                    miner_files[top_miner_uids[k]] # None})

\* int(total_miners * min_usage_pct / 100)
min_count_ceil(total, pct) == (total * pct + 99) \div 100

min_count(total, pct) == (total * pct) \div 100

\* sorted(golden, key=lambda x: x[1], reverse=True): descending count, equal
\* counts keep their order.
RECURSIVE sorted_by_count(_)
sorted_by_count(s) ==
    IF s = <<>> THEN <<>>
    ELSE LET t == sorted_by_count(SubSeq(s, 1, Len(s) - 1))
             x == s[Len(s)]
             n == Cardinality({i \in 1..Len(t) : t[i].count >= x.count})
         IN  SubSeq(t, 1, n) \o <<x>> \o SubSeq(t, n + 1, Len(t))

\* [e for e in d if keep(e)] for the test count >= least.
RECURSIVE FilterAtLeast(_, _)
FilterAtLeast(d, least) ==
    IF d = <<>> THEN <<>>
    ELSE (IF Head(d).count >= least THEN <<Head(d)>> ELSE <<>>)
         \o FilterAtLeast(Tail(d), least)

UseInit ==
    /\ script \in {"find_golden_entries", "analyze_top_miners"}
    /\ eval_data \in EvalChoices
    /\ miner_files \in [1..NumUids -> {None} \cup {Some(c) : c \in MinerChoices}]
    /\ min_usage_pct \in MinUsagePcts
    /\ uid_pos = 1
    /\ entry_counts = <<>>
    /\ golden = None
    /\ highly_used = None

\* One iteration of "for uid in top_miner_uids" in find_golden_entries: a
\* uid without data file is skipped, else every entry of the miner whose
\* fingerprint is in the evaluation index adds 1 at its position.
GoldenVisit ==
    /\ script = "find_golden_entries"
    /\ uid_pos <= Len(top_miner_uids)
    /\ LET f == miner_files[top_miner_uids[uid_pos]]
       IN  entry_counts' =
             IF f = None THEN entry_counts
             ELSE CountAll(entry_counts,
                           indices_of(Val(f), eval_set_to_idx(eval_data)))
    /\ uid_pos' = uid_pos + 1
    /\ UNCHANGED <<script, eval_data, miner_files, min_usage_pct, golden,
                   highly_used>>

\* After the loop: the golden list, (idx, count) by descending count.  The
\* third component of the tuples, count*100/total_miners, is only printed.
GoldenReturn ==
    /\ script = "find_golden_entries"
    /\ uid_pos > Len(top_miner_uids)
    /\ golden = None
    /\ golden' = Some(sorted_by_count(
                    FilterAtLeast(entry_counts,
                                  min_count(total_miners, min_usage_pct))))
    /\ UNCHANGED <<script, eval_data, miner_files, min_usage_pct, uid_pos,
                   entry_counts, highly_used>>

\* One iteration of "for uid in top_miner_uids" in analyze_top_miners.
AnalyzeVisit ==
    /\ script = "analyze_top_miners"
    /\ uid_pos <= Len(top_miner_uids)
    /\ LET f == miner_files[top_miner_uids[uid_pos]]
       IN  entry_counts' =
             IF f = None THEN entry_counts
             ELSE CountAll(entry_counts, find_entry_positions(Val(f), eval_data))
    /\ uid_pos' = uid_pos + 1
    /\ UNCHANGED <<script, eval_data, miner_files, min_usage_pct, golden,
                   highly_used>>

\* The summary: highly_used keeps count >= len(top_miner_uids) * 0.5.
AnalyzeSummary ==
    /\ script = "analyze_top_miners"
    /\ uid_pos > Len(top_miner_uids)
    /\ highly_used = None
    /\ highly_used' = Some({e \in Range(entry_counts) :
                              2 * e.count >= Len(top_miner_uids)})
    /\ UNCHANGED <<script, eval_data, miner_files, min_usage_pct, uid_pos,
                   entry_counts, golden>>

-----------------------------------------------------------------------------
(* Duplicate grouping: CHECK 2 of compare_datasets.  miner_datasets maps   *)
(* the identifiers of the loaded miners to their records; its keys are     *)
(* iterated in insertion order, which is the sorted order of the miner     *)
(* directories.  threshold is constants.DEFAULT_DUPLICATE_COUNT, whose     *)
(* value is set outside these sources: the loop is run for every value in  *)
(* 0..MaxThreshold.                                                        *)

NumMiners    == 3
MaxThreshold == 1
DatasetChoices == {<<>>, <<P1>>, <<P3>>, <<P2, P3>>, <<P1, P3, P3>>}

\* list(miner_datasets.keys())
RECURSIVE AscendingSeq(_)
AscendingSeq(S) ==
    IF S = {} THEN <<>>
    ELSE LET m == CHOOSE x \in S : \A y \in S : x <= y
         IN  <<m>> \o AscendingSeq(S \ {m})

keys == AscendingSeq(DOMAIN miner_datasets)

RECURSIVE SumLenMinusOne(_)
SumLenMinusOne(groups) ==
    IF groups = <<>> THEN 0
    ELSE (Len(Head(groups)) - 1) + SumLenMinusOne(Tail(groups))

SkipPairSelfOnly(mi, mj, done) == mi = mj

\* if miner_i == miner_j or miner_j in processed: continue
SkipPair(mi, mj, done) == mi = mj \/ mj \in done

AtLeastThreshold(similar_count, limit) == similar_count >= limit

\* if similar_count > constants.DEFAULT_DUPLICATE_COUNT
ExceedsThreshold(similar_count, limit) == similar_count > limit

CmpInit ==
    /\ \E D \in SUBSET (1..NumMiners) : miner_datasets \in [D -> DatasetChoices]
    /\ threshold \in 0..MaxThreshold
    /\ processed = {}
    /\ duplicate_groups = <<>>
    /\ similarity_matrix = {}
    /\ i_pos = 1
    /\ j_pos = 0
    /\ similar_miners = <<>>
    /\ summary = None
    /\ cpc = "outer"

\* Head of "for miner_i in miner_datasets.keys()": a processed miner is
\* passed over, another one seeds similar_miners.
SeedMiner ==
    /\ cpc = "outer"
    /\ i_pos <= Len(keys)
    /\ IF keys[i_pos] \in processed
       THEN /\ i_pos' = i_pos + 1
            /\ UNCHANGED <<similar_miners, j_pos, cpc>>
       ELSE /\ similar_miners' = <<keys[i_pos]>>
            /\ j_pos' = 1
            /\ cpc' = "inner"
            /\ UNCHANGED i_pos
    /\ UNCHANGED <<miner_datasets, threshold, processed, duplicate_groups,
                   similarity_matrix, summary>>

\* One iteration of "for miner_j in miner_datasets.keys()".
ComparePair ==
    /\ cpc = "inner"
    /\ j_pos <= Len(keys)
    /\ LET miner_i == keys[i_pos]
           miner_j == keys[j_pos]
           similar_count == count_similar(miner_datasets[miner_i],
                                          miner_datasets[miner_j])
       IN  IF SkipPair(miner_i, miner_j, processed)
           THEN UNCHANGED <<similarity_matrix, similar_miners>>
           ELSE /\ similarity_matrix' =
                     {e \in similarity_matrix : e[1] # <<miner_i, miner_j>>}
                     \cup {<<(<<miner_i, miner_j>>), similar_count>>}
                /\ similar_miners' =
                     IF ExceedsThreshold(similar_count, threshold)
                     THEN Append(similar_miners, miner_j)
                     ELSE similar_miners
    /\ j_pos' = j_pos + 1
    /\ UNCHANGED <<miner_datasets, threshold, processed, duplicate_groups,
                   i_pos, summary, cpc>>

\* After the inner loop: a group of two or more is recorded and all its
\* members are marked processed; a lone seed is marked processed.
CloseGroup ==
    /\ cpc = "inner"
    /\ j_pos > Len(keys)
    /\ IF Len(similar_miners) > 1
       THEN /\ duplicate_groups' = Append(duplicate_groups, similar_miners)
            /\ processed' = processed \cup Range(similar_miners)
       ELSE /\ processed' = processed \cup {keys[i_pos]}
            /\ UNCHANGED duplicate_groups
    /\ i_pos' = i_pos + 1
    /\ cpc' = "outer"
    /\ UNCHANGED <<miner_datasets, threshold, similarity_matrix, j_pos,
                   similar_miners, summary>>

\* The SUMMARY block: total_miners, unique_miners, dup_miners.
Summarize ==
    /\ cpc = "outer"
    /\ i_pos > Len(keys)
    /\ summary' = Some([total_miners  |-> Cardinality(DOMAIN miner_datasets),
                        unique_miners |-> Cardinality(DOMAIN miner_datasets)
                                          - SumLenMinusOne(duplicate_groups),
                        dup_miners    |-> SumLenMinusOne(duplicate_groups)])
    /\ cpc' = "done"
    /\ UNCHANGED <<miner_datasets, threshold, processed, duplicate_groups,
                   similarity_matrix, i_pos, j_pos, similar_miners>>

-----------------------------------------------------------------------------
(* The JSONL loaders.  A file is a sequence of lines; a line is blank, or   *)
(* holds the JSON text of one record, or holds text json.loads rejects.    *)
(* Four modules define load_jsonl: prepare_golden_dataset and              *)
(* analyze_top_miners parse each line inside try/except, check_datasets    *)
(* and prepare_unique_dataset parse the non-blank lines in a list          *)
(* comprehension and then cut the list to max_rows.                        *)

MaxLines == 3

BlankLine     == [kind |-> "blank", rec |-> None]
MalformedLine == [kind |-> "malformed", rec |-> None]
JsonLine(r)   == [kind |-> "json", rec |-> Some(r)]

LineChoices == {BlankLine, MalformedLine, JsonLine(P1), JsonLine(P3)}
Files       == UNION {[1..n -> LineChoices] : n \in 0..MaxLines}

TolerantLoaders == {"prepare_golden_dataset", "analyze_top_miners"}
StrictLoaders   == {"check_datasets", "prepare_unique_dataset"}

\* The outcome of a call: it returned data, or an exception left it.
Returned(data) == [raised |-> FALSE, data |-> data]
Raised         == [raised |-> TRUE, data |-> <<>>]

\* for line in f: try: data.append(json.loads(line)) except: pass
RECURSIVE load_jsonl_try(_)
load_jsonl_try(file_lines) ==
    IF file_lines = <<>> THEN <<>>
    ELSE LET line == Head(file_lines)
             rest == load_jsonl_try(Tail(file_lines))
         IN  IF line.kind = "json" THEN <<Val(line.rec)>> \o rest ELSE rest

\* [json.loads(line.strip()) for line in f if line.strip()]: the first
\* line json.loads rejects raises out of the comprehension.
RECURSIVE load_jsonl_comprehension(_)
load_jsonl_comprehension(file_lines) ==
    IF file_lines = <<>> THEN Returned(<<>>)
    ELSE LET line == Head(file_lines)
         IN  IF line.kind = "blank"
             THEN load_jsonl_comprehension(Tail(file_lines))
             ELSE IF line.kind = "malformed"
             THEN Raised
             ELSE LET rest == load_jsonl_comprehension(Tail(file_lines))
                  IN  IF rest.raised THEN Raised
                      ELSE Returned(<<Val(line.rec)>> \o rest.data)

\* data[:max_rows]
FirstRows(data, rows) == SubSeq(data, 1, Min(rows, Len(data)))

load_jsonl(module, file_lines, max_rows) ==
    IF module \in TolerantLoaders
    THEN Returned(load_jsonl_try(file_lines))
    ELSE LET parsed == load_jsonl_comprehension(file_lines)
         IN  IF parsed.raised \/ max_rows = None THEN parsed
             ELSE Returned(FirstRows(parsed.data, Val(max_rows)))

LdInit ==
    /\ ld_module \in TolerantLoaders \cup StrictLoaders
    /\ ld_lines \in Files
    /\ ld_max_rows \in IF ld_module \in StrictLoaders
                       THEN {None, Some(1)} ELSE {None}
    /\ ld_result = None

LoadJsonl ==
    /\ ld_result = None
    /\ ld_result' = Some(load_jsonl(ld_module, ld_lines, ld_max_rows))
    /\ UNCHANGED <<ld_module, ld_lines, ld_max_rows>>

-----------------------------------------------------------------------------
(* The per-unit loops of download_all_miners, find_and_download_by_coldkey *)
(* and sort_all_datasets.  The chain and the dataset store are outside     *)
(* these sources: for each unit, retrieve_model_metadata returns None or   *)
(* a metadata object or raises, and download_dataset leaves a data.jsonl   *)
(* or leaves none or raises.  An outcome counter is modelled by the list   *)
(* of the units counted in it, the counter's value being its length.       *)

NumUnits == 3

BatchTools == {"download_all_miners", "find_and_download_by_coldkey",
               "sort_all_datasets"}

MetadataEvents == {"none", "found", "raises"}
FetchEvents    == {"file", "no_file", "raises"}

\* The data.jsonl files a miner directory can hold before sorting.
DirFiles == {<<>>,
             <<JsonLine(P3), JsonLine(P1)>>,
             <<JsonLine(P1), JsonLine(P3), JsonLine(P3)>>,
             <<JsonLine(P1), MalformedLine>>,
             <<BlankLine, JsonLine(P3), JsonLine(P2)>>}

\* sorted(data, key=lambda x: json.dumps(x, sort_keys=True)): stable.
RECURSIVE sorted_by_fingerprint(_)
sorted_by_fingerprint(data) ==
    IF data = <<>> THEN <<>>
    ELSE LET rest == sorted_by_fingerprint(Tail(data))
             fp   == json_dumps(Head(data))
             k    == Cardinality({i \in 1..Len(rest) :
                                     StrLess(json_dumps(rest[i]), fp)})
         IN  SubSeq(rest, 1, k) \o <<Head(data)>> \o SubSeq(rest, k + 1, Len(rest))

RewritesInFileOrder(file_lines, unreadable) ==
    IF unreadable \/ file_lines = <<>>
    THEN [ok |-> FALSE, content |-> file_lines]
    ELSE LET parsed == load_jsonl_comprehension(file_lines)
         IN  IF parsed.raised
             THEN [ok |-> FALSE, content |-> file_lines]
             ELSE [ok |-> TRUE,
                   content |-> [i \in 1..Len(parsed.data)
                                  |-> JsonLine(parsed.data[i])]]

\* sort_dataset_file: the value returned and the lines the file holds after
\* the call.  unreadable stands for open() raising.
sort_dataset_file(file_lines, unreadable) ==
    IF unreadable \/ file_lines = <<>>
    THEN [ok |-> FALSE, content |-> file_lines]
    ELSE LET parsed == load_jsonl_comprehension(file_lines)
         IN  IF parsed.raised
             THEN [ok |-> FALSE, content |-> file_lines]
             ELSE LET data_sorted == sorted_by_fingerprint(parsed.data)
                  IN  [ok |-> TRUE,
                       content |-> [i \in 1..Len(data_sorted)
                                      |-> JsonLine(data_sorted[i])]]

UncountedOnError(tool, metadata, fetch) ==
    IF metadata = "raises" \/ (metadata = "found" /\ fetch = "raises")
    THEN "uncounted"
    ELSE IF metadata = "none"
    THEN (IF tool = "download_all_miners" THEN "skipped" ELSE "failed")
    ELSE IF fetch = "file" THEN "downloaded" ELSE "failed"

\* The outcome of one iteration of a download loop.
download_outcome(tool, metadata, fetch) ==
    IF metadata = "raises" THEN "failed"
    ELSE IF metadata = "none"
    THEN (IF tool = "download_all_miners" THEN "skipped" ELSE "failed")
    ELSE IF fetch = "raises" THEN "failed"
    ELSE IF fetch = "file" THEN "downloaded"
    ELSE "failed"

BatInit ==
    /\ bat_tool \in BatchTools
    /\ \E n \in 0..NumUnits :
          /\ (bat_tool # "download_all_miners") => n > 0
          /\ bat_units = [k \in 1..n |-> k]
          /\ bat_files \in IF bat_tool = "sort_all_datasets"
                           THEN [1..n -> {None} \cup {Some(f) : f \in DirFiles}]
                           ELSE {<<>>}
    /\ bat_pos = 1
    /\ bat_downloaded = <<>>
    /\ bat_failed = <<>>
    /\ bat_skipped = <<>>
    /\ bat_visited = <<>>
    /\ bpc = "loop"

\* One iteration of "for uid in current_uids" / "for uid in matching_uids".
VisitUid ==
    /\ bpc = "loop"
    /\ bat_tool \in {"download_all_miners", "find_and_download_by_coldkey"}
    /\ bat_pos <= Len(bat_units)
    /\ \E metadata \in MetadataEvents, fetch \in FetchEvents :
          LET uid     == bat_units[bat_pos]
              outcome == download_outcome(bat_tool, metadata, fetch)
          IN  /\ bat_downloaded' = IF outcome = "downloaded"
                                   THEN Append(bat_downloaded, uid)
                                   ELSE bat_downloaded
              /\ bat_failed' = IF outcome = "failed"
                               THEN Append(bat_failed, uid) ELSE bat_failed
              /\ bat_skipped' = IF outcome = "skipped"
                                THEN Append(bat_skipped, uid) ELSE bat_skipped
              /\ bat_visited' = Append(bat_visited, uid)
    /\ bat_pos' = bat_pos + 1
    /\ UNCHANGED <<bat_tool, bat_units, bat_files, bpc>>

\* One iteration of "for miner_dir in miner_dirs".
VisitMinerDir ==
    /\ bpc = "loop"
    /\ bat_tool = "sort_all_datasets"
    /\ bat_pos <= Len(bat_units)
    /\ LET miner_dir == bat_units[bat_pos]
       IN  IF bat_files[miner_dir] = None
           THEN /\ bat_skipped' = Append(bat_skipped, miner_dir)
                /\ UNCHANGED <<bat_downloaded, bat_failed, bat_files>>
           ELSE \E unreadable \in BOOLEAN :
                   LET done == sort_dataset_file(Val(bat_files[miner_dir]),
                                                 unreadable)
                   IN  /\ bat_files' = [bat_files EXCEPT
                                          ![miner_dir] = Some(done.content)]
                       /\ IF done.ok
                          THEN /\ bat_downloaded' =
                                     Append(bat_downloaded, miner_dir)
                               /\ UNCHANGED bat_failed
                          ELSE /\ bat_failed' = Append(bat_failed, miner_dir)
                               /\ UNCHANGED bat_downloaded
                       /\ UNCHANGED bat_skipped
    /\ bat_visited' = Append(bat_visited, bat_units[bat_pos])
    /\ bat_pos' = bat_pos + 1
    /\ UNCHANGED <<bat_tool, bat_units, bpc>>

\* The summary printed after the loop.
BatchSummary ==
    /\ bpc = "loop"
    /\ bat_pos > Len(bat_units)
    /\ bpc' = "done"
    /\ UNCHANGED <<bat_tool, bat_units, bat_files, bat_pos, bat_downloaded,
                   bat_failed, bat_skipped, bat_visited>>

-----------------------------------------------------------------------------
(* The duplicate verdicts.  Three tools compare an overlap count with the  *)
(* duplicate threshold of 100: the verification step of                    *)
(* prepare_golden_dataset, check_miner_vs_eval with determine_status, and  *)
(* the verification step of prepare_unique_dataset.  The count is the      *)
(* input here: similar_count is count_similar(miner_data, eval_data), at   *)
(* most total_miner, and max_overlap is the largest count_similar of the   *)
(* written selection with a miner dataset.                                 *)

MaxOverlap == 102

\* Number of entries of the second miner file tried for each count.
LargeMinerSize == 250

\* prepare_golden_dataset: if max_overlap >= 100:  # DEFAULT_DUPLICATE_COUNT
DEFAULT_DUPLICATE_COUNT == 100

\* check_miner_vs_eval(miner_file, eval_data, duplicate_threshold=100)
duplicate_threshold_default == 100

\* prepare_unique_dataset.main: duplicate_threshold = 100
unique_duplicate_threshold == 100

\* determine_status: if similar_count >= 50
high_similarity_count == 50

\* "High overlap detected" is printed.
selector_high_overlap(max_overlap) == max_overlap >= DEFAULT_DUPLICATE_COUNT

determine_status(similar_count, total_miner, is_duplicate, is_majority_duplicate) ==
    IF total_miner = 0 THEN "EMPTY"
    ELSE IF is_duplicate THEN "COMPLETE DUPLICATE"
    ELSE IF is_majority_duplicate THEN "MAJOR DUPLICATE (>100 entries)"
    ELSE IF similar_count >= high_similarity_count THEN "HIGH SIMILARITY"
    ELSE IF similar_count > 0 THEN "SOME OVERLAP"
    ELSE "NO OVERLAP"

\* The statistics check_miner_vs_eval returns.
check_miner_vs_eval(similar_count, total_miner, limit) ==
    LET is_duplicate          == similar_count = total_miner
        is_majority_duplicate == similar_count >= limit
    IN  [total_miner_entries   |-> total_miner,
         similar_entries       |-> similar_count,
         is_complete_duplicate |-> is_duplicate,
         is_majority_duplicate |-> is_majority_duplicate,
         is_suspicious         |-> total_miner > 0
                                   /\ similar_count * 100 >= 50 * total_miner,
         status |-> determine_status(similar_count, total_miner, is_duplicate,
                                     is_majority_duplicate)]

\* "Dataset exceeds threshold" is printed.
unique_exceeds_threshold(max_overlap) ==
    ~(max_overlap <= unique_duplicate_threshold)

VdInit ==
    /\ vd_overlap \in 0..MaxOverlap
    /\ vd_total \in {vd_overlap, vd_overlap + 1, LargeMinerSize}
    /\ vd_selector = None
    /\ vd_check = None
    /\ vd_unique = None

SelectorVerify ==
    /\ vd_selector = None
    /\ vd_selector' = Some(selector_high_overlap(vd_overlap))
    /\ UNCHANGED <<vd_overlap, vd_total, vd_check, vd_unique>>

CheckMinerVsEval ==
    /\ vd_check = None
    /\ vd_check' = Some(check_miner_vs_eval(vd_overlap, vd_total,
                                            duplicate_threshold_default))
    /\ UNCHANGED <<vd_overlap, vd_total, vd_selector, vd_unique>>

UniqueVerify ==
    /\ vd_unique = None
    /\ vd_unique' = Some(unique_exceeds_threshold(vd_overlap))
    /\ UNCHANGED <<vd_overlap, vd_total, vd_selector, vd_check>>

-----------------------------------------------------------------------------
(* prepare_unique_dataset: find_unique_entries and the part of main that   *)
(* writes its result.  uq_miners is the list of the loaded miner datasets. *)
(* main calls find_unique_entries without duplicate_threshold, which is    *)
(* then the default of 100; a direct call passes any value.                *)

MaxNeeded == 3

\* find_unique_entries(..., duplicate_threshold=100)
find_unique_default_threshold == 100

\* {"a": n}
R(n) == JDict(<<Item(<<"a">>, JInt(n))>>)

UqEvalChoices  == {<<R(1), R(2)>>, <<R(1), R(2), R(3)>>, <<P1, P3, P2>>,
                   <<R(1), R(1), R(2)>>}
UqMinerChoices == {<<>>, <<(<<R(1)>>)>>, <<(<<R(1)>>), (<<R(2), R(1)>>)>>,
                   <<(<<P2>>)>>, <<(<<R(3), R(1), R(2)>>)>>}
UqDirectThresholds == {0, 1}

\* a == b for two parsed values: dicts are equal whatever their key order,
\* an int equals the float of the same value.
RECURSIVE PyValue(_)
PyValue(v) ==
    [t |-> IF v.t \in {"int", "float"} THEN "number" ELSE v.t,
     n |-> v.n, s |-> v.s,
     m |-> {<<v.items[i].k, PyValue(v.items[i].v)>> : i \in 1..Len(v.items)}]

\* Phase 1: the fingerprints of all miner datasets.
all_used_entries(miners) ==
    UNION {jsonl_to_set(miners[m]) : m \in 1..Len(miners)}

\* Phase 2: the evaluation entries whose fingerprint no miner uses.
RECURSIVE completely_unused(_, _)
completely_unused(evals, miners) ==
    IF evals = <<>> THEN <<>>
    ELSE (IF json_dumps(Head(evals)) \notin all_used_entries(miners)
          THEN <<Head(evals)>> ELSE <<>>)
         \o completely_unused(Tail(evals), miners)

\* random.sample(population, k): k entries from distinct places, any order.
Samples(population, k) ==
    {[i \in 1..k |-> population[f[i]]] :
        f \in {g \in [1..k -> 1..Len(population)] :
                  \A i, j \in 1..k : i # j => g[i] # g[j]}}

\* [e for e in eval_data if e not in completely_unused]
RECURSIVE remaining_candidates(_, _)
remaining_candidates(evals, unused) ==
    IF evals = <<>> THEN <<>>
    ELSE (IF \E u \in 1..Len(unused) : PyValue(unused[u]) = PyValue(Head(evals))
          THEN <<>> ELSE <<Head(evals)>>)
         \o remaining_candidates(Tail(evals), unused)

\* The largest count_similar(entries, miner_data) over the miner datasets,
\* 0 without any.
RECURSIVE max_overlap(_, _)
max_overlap(entries, miners) ==
    IF miners = <<>> THEN 0
    ELSE LET overlap == count_similar(entries, miners[Len(miners)])
             before  == max_overlap(entries, SubSeq(miners, 1, Len(miners) - 1))
         IN  IF overlap > before THEN overlap ELSE before

AcceptsAnyCandidate(test_set, miners, limit) == TRUE

\* if max_overlap <= duplicate_threshold: selected.append(candidate)
AcceptsCandidate(test_set, miners, limit) ==
    max_overlap(test_set, miners) <= limit

UqInit ==
    /\ uq_eval \in UqEvalChoices
    /\ uq_miners \in UqMinerChoices
    /\ uq_num_needed \in 1..MaxNeeded
    /\ uq_from_main \in BOOLEAN
    /\ uq_threshold \in IF uq_from_main THEN {find_unique_default_threshold}
                        ELSE UqDirectThresholds
    /\ uq_selected = <<>>
    /\ uq_candidates = <<>>
    /\ uq_cand_pos = 0
    /\ uq_written = None
    /\ uqpc = "start"

\* find_unique_entries up to the fallback loop: phases 1 to 3.
FindUnused ==
    /\ uqpc = "start"
    /\ LET unused == completely_unused(uq_eval, uq_miners)
       IN  IF Len(unused) >= uq_num_needed
           THEN /\ uq_selected' \in Samples(unused, uq_num_needed)
                /\ uqpc' = "returned"
                /\ UNCHANGED <<uq_candidates, uq_cand_pos>>
           ELSE LET remaining_needed == uq_num_needed - Len(unused)
                IN  /\ uq_selected' = unused
                    /\ uq_candidates' =
                          FirstRows(remaining_candidates(uq_eval, unused),
                                    remaining_needed * 10)
                    /\ uq_cand_pos' = 1
                    /\ uqpc' = "fallback"
    /\ UNCHANGED <<uq_eval, uq_miners, uq_num_needed, uq_from_main,
                   uq_threshold, uq_written>>

\* One iteration of "for candidate in remaining_candidates[...]".
TryCandidate ==
    /\ uqpc = "fallback"
    /\ uq_cand_pos <= Len(uq_candidates)
    /\ LET candidate == uq_candidates[uq_cand_pos]
           test_set  == Append(uq_selected, candidate)
       IN  IF AcceptsCandidate(test_set, uq_miners, uq_threshold)
           THEN /\ uq_selected' = test_set
                /\ uqpc' = IF Len(test_set) >= uq_num_needed
                           THEN "returned" ELSE "fallback"
           ELSE UNCHANGED <<uq_selected, uqpc>>
    /\ uq_cand_pos' = uq_cand_pos + 1
    /\ UNCHANGED <<uq_eval, uq_miners, uq_num_needed, uq_from_main,
                   uq_threshold, uq_candidates, uq_written>>

\* The candidates are used up: return selected.
FallbackEnd ==
    /\ uqpc = "fallback"
    /\ uq_cand_pos > Len(uq_candidates)
    /\ uqpc' = "returned"
    /\ UNCHANGED <<uq_eval, uq_miners, uq_num_needed, uq_from_main,
                   uq_threshold, uq_selected, uq_candidates, uq_cand_pos,
                   uq_written>>

\* main after find_unique_entries: give up when too few entries came back,
\* else sort by fingerprint and write the output file.
MainWrite ==
    /\ uqpc = "returned"
    /\ uq_from_main
    /\ IF Len(uq_selected) < uq_num_needed
       THEN /\ uqpc' = "error"
            /\ UNCHANGED uq_written
       ELSE /\ uq_written' = Some(sorted_by_fingerprint(uq_selected))
            /\ uqpc' = "written"
    /\ UNCHANGED <<uq_eval, uq_miners, uq_num_needed, uq_from_main,
                   uq_threshold, uq_selected, uq_candidates, uq_cand_pos>>

-----------------------------------------------------------------------------
(* The constrained selector prepare_golden_dataset.  sel_top_files are the *)
(* files data/miner_<uid>/data.jsonl of the top_miner_uids that            *)
(* find_golden_entries reads, sel_dir_files the data.jsonl files of the    *)
(* miner directories of data_dir: the same files when data_dir is "data".  *)
(* max_reused_golden is 80 in the source; the passes are also run with a   *)
(* cap of 1, which collections of a few records reach.                     *)

MaxTarget == 3

\* max_reused_golden = 80
max_reused_golden == 80
ReusedCaps == {1, max_reused_golden}

SelEvalChoices  == {<<R(1), R(2), R(3)>>, <<R(1), R(2), R(3), R(4)>>,
                    <<R(1), R(2), R(1), R(3)>>}
SelMinerChoices == {<<R(1)>>, <<R(1), R(2)>>, <<R(3), R(1)>>}
SelUsagePcts    == {50, 100}

\* The data_dir contents tried besides the top miners' own files.
SelOtherDirs ==
    {[k \in 1..NumUids |-> None],
     [k \in 1..NumUids |-> IF k = 1 THEN Some(<<R(1)>>) ELSE None]}

\* entry_counts after the first k iterations of "for uid in top_miner_uids".
RECURSIVE entry_counts_after(_, _, _)
entry_counts_after(evals, files, k) ==
    IF k = 0 THEN <<>>
    ELSE LET before == entry_counts_after(evals, files, k - 1)
             f      == files[top_miner_uids[k]]
         IN  IF f = None THEN before
             ELSE CountAll(before, indices_of(Val(f), eval_set_to_idx(evals)))

GoldenInCountingOrder(evals, files, pct) ==
    LET total == Cardinality({k \in 1..Len(top_miner_uids) :
                                 files[top_miner_uids[k]] # None})
    IN  FilterAtLeast(entry_counts_after(evals, files, Len(top_miner_uids)),
                      min_count(total, pct))

\* find_golden_entries: (idx, count) by descending count.
find_golden_entries(evals, files, pct) ==
    LET total == Cardinality({k \in 1..Len(top_miner_uids) :
                                 files[top_miner_uids[k]] # None})
    IN  sorted_by_count(
            FilterAtLeast(entry_counts_after(evals, files, Len(top_miner_uids)),
                          min_count(total, pct)))

ScansNoDirectory(files) == {}

\* The fingerprints of every data.jsonl under the miner directories.
used_entries(files) ==
    UNION {jsonl_to_set(Val(files[k])) : k \in {d \in DOMAIN files : files[d] # None}}

TakesEveryGolden(entry_str, used) == TRUE

\* First pass: if entry_str not in used_entries_set
IsUnusedEntry(entry_str, used) == entry_str \notin used

NeverReused(entry_str, used) == FALSE

\* Second pass: if entry_str in used_entries_set
IsReusedEntry(entry_str, used) == entry_str \in used

ReusedCapExceeded(reused, cap) == reused > cap

\* if golden_reused >= max_reused_golden: break
ReusedCapReached(reused, cap) == reused >= cap

IgnoresSelected(i, chosen, evals, used, unique) ==
    ~(unique /\ json_dumps(evals[i + 1]) \in used)

\* The test of the fill loop: position i is not selected and, when
\* uniqueness is ensured, its fingerprint is not used.
IsAvailable(i, chosen, evals, used, unique) ==
    /\ i \notin chosen
    /\ ~(unique /\ json_dumps(evals[i + 1]) \in used)

\* available_indices: the available positions in ascending order.
available_indices(chosen, evals, used, unique) ==
    AscendingSeq({i \in 0..(Len(evals) - 1) :
                     IsAvailable(i, chosen, evals, used, unique)})

TakesAllAvailable(available, remaining) == Len(available)

\* if len(available_indices) < remaining: remaining = len(available_indices)
fill_count(available, remaining) ==
    IF Len(available) < remaining THEN Len(available) ELSE remaining

SelInit ==
    /\ sel_eval \in SelEvalChoices
    /\ sel_top_files \in [1..NumUids -> {None} \cup {Some(c) : c \in SelMinerChoices}]
    /\ sel_dir_files \in {sel_top_files} \cup SelOtherDirs
    /\ sel_target_size \in 0..MaxTarget
    /\ sel_min_pct \in SelUsagePcts
    /\ sel_ensure_unique \in BOOLEAN
    /\ sel_reused_cap \in ReusedCaps
    /\ golden_indices = <<>>
    /\ used_entries_set = {}
    /\ selected_indices = {}
    /\ selected_entries = <<>>
    /\ selected_positions = <<>>
    /\ golden_added = 0
    /\ golden_reused = 0
    /\ golden_unique = 0
    /\ g_pos = 0
    /\ sel_shortfall = FALSE
    /\ sel_high_overlap = None
    /\ sel_output = None
    /\ spc = "start"

\* Lines 93-135: the golden indices and the used-entries set.
CollectGolden ==
    /\ spc = "start"
    /\ LET golden_entries ==
             find_golden_entries(sel_eval, sel_top_files, sel_min_pct)
       IN  golden_indices' = [k \in 1..Len(golden_entries) |-> golden_entries[k].idx]
    /\ used_entries_set' = IF sel_ensure_unique THEN used_entries(sel_dir_files)
                           ELSE {}
    /\ g_pos' = 1
    /\ spc' = "pass1"
    /\ UNCHANGED <<sel_eval, sel_top_files, sel_dir_files, sel_target_size,
                   sel_min_pct, sel_ensure_unique, sel_reused_cap,
                   selected_indices, selected_entries, selected_positions,
                   golden_added, golden_reused, golden_unique, sel_shortfall,
                   sel_high_overlap, sel_output>>

\* One iteration of the first pass, or its end.
FirstPass ==
    /\ spc = "pass1"
    /\ IF g_pos > Len(golden_indices) \/ Len(selected_entries) >= sel_target_size
       THEN /\ spc' = "pass2"
            /\ g_pos' = 1
            /\ UNCHANGED <<selected_indices, selected_entries,
                           selected_positions, golden_added, golden_unique>>
       ELSE LET idx == golden_indices[g_pos]
            IN  /\ IF idx < Len(sel_eval)
                      /\ IsUnusedEntry(json_dumps(sel_eval[idx + 1]),
                                       used_entries_set)
                   THEN /\ selected_indices' = selected_indices \cup {idx}
                        /\ selected_entries' =
                              Append(selected_entries, sel_eval[idx + 1])
                        /\ selected_positions' = Append(selected_positions, idx)
                        /\ golden_added' = golden_added + 1
                        /\ golden_unique' = golden_unique + 1
                   ELSE UNCHANGED <<selected_indices, selected_entries,
                                    selected_positions, golden_added,
                                    golden_unique>>
                /\ g_pos' = g_pos + 1
                /\ UNCHANGED spc
    /\ UNCHANGED <<sel_eval, sel_top_files, sel_dir_files, sel_target_size,
                   sel_min_pct, sel_ensure_unique, sel_reused_cap,
                   golden_indices, used_entries_set, golden_reused,
                   sel_shortfall, sel_high_overlap, sel_output>>

\* One iteration of the second pass, or its end.
SecondPass ==
    /\ spc = "pass2"
    /\ IF \/ g_pos > Len(golden_indices)
          \/ Len(selected_entries) >= sel_target_size
          \/ ReusedCapReached(golden_reused, sel_reused_cap)
       THEN /\ spc' = "fill"
            /\ UNCHANGED <<g_pos, selected_indices, selected_entries,
                           selected_positions, golden_added, golden_reused>>
       ELSE LET idx == golden_indices[g_pos]
            IN  /\ IF /\ idx < Len(sel_eval)
                      /\ idx \notin selected_indices
                      /\ IsReusedEntry(json_dumps(sel_eval[idx + 1]),
                                       used_entries_set)
                   THEN /\ selected_indices' = selected_indices \cup {idx}
                        /\ selected_entries' =
                              Append(selected_entries, sel_eval[idx + 1])
                        /\ selected_positions' = Append(selected_positions, idx)
                        /\ golden_added' = golden_added + 1
                        /\ golden_reused' = golden_reused + 1
                   ELSE UNCHANGED <<selected_indices, selected_entries,
                                    selected_positions, golden_added,
                                    golden_reused>>
                /\ g_pos' = g_pos + 1
                /\ UNCHANGED spc
    /\ UNCHANGED <<sel_eval, sel_top_files, sel_dir_files, sel_target_size,
                   sel_min_pct, sel_ensure_unique, sel_reused_cap,
                   golden_indices, used_entries_set, golden_unique,
                   sel_shortfall, sel_high_overlap, sel_output>>

\* Lines 179-204: the remaining slots are filled from the shuffled
\* available positions.
Fill ==
    /\ spc = "fill"
    /\ LET remaining == sel_target_size - Len(selected_entries)
           available == available_indices(selected_indices, sel_eval,
                                          used_entries_set, sel_ensure_unique)
       IN  IF remaining > 0
           THEN /\ sel_shortfall' = (Len(available) < remaining)
                /\ \E taken \in Samples(available, fill_count(available, remaining)) :
                      /\ selected_positions' = selected_positions \o taken
                      /\ selected_entries' = selected_entries
                            \o [k \in 1..Len(taken) |-> sel_eval[taken[k] + 1]]
                      /\ selected_indices' = selected_indices \cup Range(taken)
           ELSE UNCHANGED <<sel_shortfall, selected_positions,
                            selected_entries, selected_indices>>
    /\ spc' = "verify"
    /\ UNCHANGED <<sel_eval, sel_top_files, sel_dir_files, sel_target_size,
                   sel_min_pct, sel_ensure_unique, sel_reused_cap,
                   golden_indices, used_entries_set, golden_added,
                   golden_reused, golden_unique, g_pos, sel_high_overlap,
                   sel_output>>

\* The largest count_similar(selected_entries, miner_data) over the miner
\* directories with a data file.
selector_max_overlap(entries, files) ==
    LET counts == {count_similar(entries, Val(files[k])) :
                      k \in {d \in DOMAIN files : files[d] # None}}
    IN  IF counts = {} THEN 0
        ELSE CHOOSE c \in counts : \A o \in counts : o <= c

\* Lines 211-244: the verification when uniqueness is ensured, then the
\* selection is written to output_path.
VerifyAndSave ==
    /\ spc = "verify"
    /\ sel_high_overlap' =
          IF sel_ensure_unique
          THEN Some(selector_high_overlap(
                       selector_max_overlap(selected_entries, sel_dir_files)))
          ELSE None
    /\ sel_output' = Some(selected_entries)
    /\ spc' = "summary"
    /\ UNCHANGED <<sel_eval, sel_top_files, sel_dir_files, sel_target_size,
                   sel_min_pct, sel_ensure_unique, sel_reused_cap,
                   golden_indices, used_entries_set, selected_indices,
                   selected_entries, selected_positions, golden_added,
                   golden_reused, golden_unique, g_pos, sel_shortfall>>

\* Lines 246-258: the summary divides by len(golden_indices), which raises
\* ZeroDivisionError for an empty golden list; else output_path is returned.
FinalSummary ==
    /\ spc = "summary"
    /\ spc' = IF Len(golden_indices) = 0 THEN "raised" ELSE "returned"
    /\ UNCHANGED <<sel_eval, sel_top_files, sel_dir_files, sel_target_size,
                   sel_min_pct, sel_ensure_unique, sel_reused_cap,
                   golden_indices, used_entries_set, selected_indices,
                   selected_entries, selected_positions, golden_added,
                   golden_reused, golden_unique, g_pos, sel_shortfall,
                   sel_high_overlap, sel_output>>

-----------------------------------------------------------------------------
(* The miner-versus-evaluation check: CHECK 1 of compare_datasets and      *)
(* check_miner_vs_eval of check_datasets, run on one loaded miner dataset  *)
(* and the evaluation dataset.                                             *)

\* CHECK 1: the valid mark is printed unless similar_count != total_miner.
prints_valid_mark(evals, miner_data) ==
    ~(count_similar(evals, miner_data) # Len(miner_data))

EvInit ==
    /\ ev_eval \in Collections
    /\ ev_miner \in Collections
    /\ ev_valid_mark = None
    /\ ev_stats = None

\* One iteration of "for miner_name, miner_data in miner_datasets.items()".
CompareWithEval ==
    /\ ev_valid_mark = None
    /\ ev_valid_mark' = Some(prints_valid_mark(ev_eval, ev_miner))
    /\ UNCHANGED <<ev_eval, ev_miner, ev_stats>>

\* check_miner_vs_eval on the loaded miner file.
CheckMinerFile ==
    /\ ev_stats = None
    /\ ev_stats' = Some(check_miner_vs_eval(count_similar(ev_miner, ev_eval),
                                            Len(ev_miner),
                                            duplicate_threshold_default))
    /\ UNCHANGED <<ev_eval, ev_miner, ev_valid_mark>>

-----------------------------------------------------------------------------
(* Specifications: one tool runs, the others hold no data.                 *)

FpIdle == /\ rec1 = None /\ rec2 = None /\ fp1 = None /\ fp2 = None
          /\ fpc = "idle"
SimIdle == /\ colA = None /\ colB = None /\ simAB = None /\ simBA = None
           /\ hashA = None /\ hashB = None /\ positions = None
UseIdle == /\ script = "idle" /\ eval_data = None /\ miner_files = None
           /\ min_usage_pct = 0 /\ uid_pos = 0 /\ entry_counts = None
           /\ golden = None /\ highly_used = None
CmpIdle == /\ miner_datasets = None /\ threshold = 0 /\ processed = {}
           /\ duplicate_groups = None /\ similarity_matrix = {} /\ i_pos = 0
           /\ j_pos = 0 /\ similar_miners = None /\ summary = None
           /\ cpc = "idle"
LdIdle == /\ ld_module = "idle" /\ ld_lines = None /\ ld_max_rows = None
          /\ ld_result = None
BatIdle == /\ bat_tool = "idle" /\ bat_units = None /\ bat_files = None
           /\ bat_pos = 0 /\ bat_downloaded = None /\ bat_failed = None
           /\ bat_skipped = None /\ bat_visited = None /\ bpc = "idle"
VdIdle == /\ vd_overlap = 0 /\ vd_total = 0 /\ vd_selector = None
          /\ vd_check = None /\ vd_unique = None
UqIdle == /\ uq_eval = None /\ uq_miners = None /\ uq_num_needed = 0
          /\ uq_from_main = FALSE /\ uq_threshold = 0 /\ uq_selected = None
          /\ uq_candidates = None /\ uq_cand_pos = 0 /\ uq_written = None
          /\ uqpc = "idle"
SelIdle == /\ sel_eval = None /\ sel_top_files = None /\ sel_dir_files = None
           /\ sel_target_size = 0 /\ sel_min_pct = 0
           /\ sel_ensure_unique = FALSE /\ sel_reused_cap = 0
           /\ golden_indices = None /\ used_entries_set = {}
           /\ selected_indices = {} /\ selected_entries = None
           /\ selected_positions = None /\ golden_added = 0
           /\ golden_reused = 0 /\ golden_unique = 0 /\ g_pos = 0
           /\ sel_shortfall = FALSE /\ sel_high_overlap = None
           /\ sel_output = None /\ spc = "idle"
EvIdle == /\ ev_eval = None /\ ev_miner = None /\ ev_valid_mark = None
          /\ ev_stats = None

InitFingerprint == FpInit /\ SimIdle /\ UseIdle /\ CmpIdle /\ LdIdle
                   /\ BatIdle /\ VdIdle /\ UqIdle /\ SelIdle /\ EvIdle
FpNext ==
    \/ Canonicalize
       /\ UNCHANGED <<simVars, useVars, cmpVars, ldVars, batVars, vdVars, uqVars,
                    selVars, evVars>>
SpecFingerprint == InitFingerprint /\ [][FpNext]_vars

InitSimilarity == SimInit /\ FpIdle /\ UseIdle /\ CmpIdle /\ LdIdle
                  /\ BatIdle /\ VdIdle /\ UqIdle /\ SelIdle /\ EvIdle
SimNext ==
    \/ CountSimilar
       /\ UNCHANGED <<fpVars, useVars, cmpVars, ldVars, batVars, vdVars, uqVars,
                    selVars, evVars>>
    \/ GetDatasetHash
       /\ UNCHANGED <<fpVars, useVars, cmpVars, ldVars, batVars, vdVars, uqVars,
                    selVars, evVars>>
    \/ FindEntryPositions
       /\ UNCHANGED <<fpVars, useVars, cmpVars, ldVars, batVars, vdVars, uqVars,
                    selVars, evVars>>
SpecSimilarity == InitSimilarity /\ [][SimNext]_vars

InitUsage == UseInit /\ FpIdle /\ SimIdle /\ CmpIdle /\ LdIdle /\ BatIdle
             /\ VdIdle /\ UqIdle /\ SelIdle /\ EvIdle
UseNext ==
    \/ GoldenVisit
       /\ UNCHANGED <<fpVars, simVars, cmpVars, ldVars, batVars, vdVars, uqVars,
                    selVars, evVars>>
    \/ GoldenReturn
       /\ UNCHANGED <<fpVars, simVars, cmpVars, ldVars, batVars, vdVars, uqVars,
                    selVars, evVars>>
    \/ AnalyzeVisit
       /\ UNCHANGED <<fpVars, simVars, cmpVars, ldVars, batVars, vdVars, uqVars,
                    selVars, evVars>>
    \/ AnalyzeSummary
       /\ UNCHANGED <<fpVars, simVars, cmpVars, ldVars, batVars, vdVars, uqVars,
                    selVars, evVars>>
SpecUsage == InitUsage /\ [][UseNext]_vars

InitCompare == CmpInit /\ FpIdle /\ SimIdle /\ UseIdle /\ LdIdle /\ BatIdle
               /\ VdIdle /\ UqIdle /\ SelIdle /\ EvIdle
CmpNext ==
    \/ SeedMiner
       /\ UNCHANGED <<fpVars, simVars, useVars, ldVars, batVars, vdVars, uqVars,
                    selVars, evVars>>
    \/ ComparePair
       /\ UNCHANGED <<fpVars, simVars, useVars, ldVars, batVars, vdVars, uqVars,
                    selVars, evVars>>
    \/ CloseGroup
       /\ UNCHANGED <<fpVars, simVars, useVars, ldVars, batVars, vdVars, uqVars,
                    selVars, evVars>>
    \/ Summarize
       /\ UNCHANGED <<fpVars, simVars, useVars, ldVars, batVars, vdVars, uqVars,
                    selVars, evVars>>
SpecCompare == InitCompare /\ [][CmpNext]_vars

InitLoader == LdInit /\ FpIdle /\ SimIdle /\ UseIdle /\ CmpIdle /\ BatIdle
              /\ VdIdle /\ UqIdle /\ SelIdle /\ EvIdle
LdNext ==
    \/ LoadJsonl
       /\ UNCHANGED <<fpVars, simVars, useVars, cmpVars, batVars, vdVars, uqVars,
                    selVars, evVars>>
SpecLoader == InitLoader /\ [][LdNext]_vars

InitBatch == BatInit /\ FpIdle /\ SimIdle /\ UseIdle /\ CmpIdle /\ LdIdle
             /\ VdIdle /\ UqIdle /\ SelIdle /\ EvIdle
BatNext ==
    \/ VisitUid
       /\ UNCHANGED <<fpVars, simVars, useVars, cmpVars, ldVars, vdVars, uqVars,
                    selVars, evVars>>
    \/ VisitMinerDir
       /\ UNCHANGED <<fpVars, simVars, useVars, cmpVars, ldVars, vdVars, uqVars,
                    selVars, evVars>>
    \/ BatchSummary
       /\ UNCHANGED <<fpVars, simVars, useVars, cmpVars, ldVars, vdVars, uqVars,
                    selVars, evVars>>
SpecBatch == InitBatch /\ [][BatNext]_vars

InitVerdict == VdInit /\ FpIdle /\ SimIdle /\ UseIdle /\ CmpIdle /\ LdIdle
               /\ BatIdle /\ UqIdle /\ SelIdle /\ EvIdle
VdNext ==
    \/ SelectorVerify
       /\ UNCHANGED <<fpVars, simVars, useVars, cmpVars, ldVars, batVars, uqVars,
                    selVars, evVars>>
    \/ CheckMinerVsEval
       /\ UNCHANGED <<fpVars, simVars, useVars, cmpVars, ldVars, batVars, uqVars,
                    selVars, evVars>>
    \/ UniqueVerify
       /\ UNCHANGED <<fpVars, simVars, useVars, cmpVars, ldVars, batVars, uqVars,
                    selVars, evVars>>
SpecVerdict == InitVerdict /\ [][VdNext]_vars

InitUnique == UqInit /\ FpIdle /\ SimIdle /\ UseIdle /\ CmpIdle /\ LdIdle
              /\ BatIdle /\ VdIdle /\ SelIdle /\ EvIdle
UqNext ==
    \/ FindUnused
       /\ UNCHANGED <<fpVars, simVars, useVars, cmpVars, ldVars, batVars, vdVars,
                    selVars, evVars>>
    \/ TryCandidate
       /\ UNCHANGED <<fpVars, simVars, useVars, cmpVars, ldVars, batVars, vdVars,
                    selVars, evVars>>
    \/ FallbackEnd
       /\ UNCHANGED <<fpVars, simVars, useVars, cmpVars, ldVars, batVars, vdVars,
                    selVars, evVars>>
    \/ MainWrite
       /\ UNCHANGED <<fpVars, simVars, useVars, cmpVars, ldVars, batVars, vdVars,
                    selVars, evVars>>
SpecUnique == InitUnique /\ [][UqNext]_vars

InitSelector == SelInit /\ FpIdle /\ SimIdle /\ UseIdle /\ CmpIdle
                /\ LdIdle /\ BatIdle /\ VdIdle /\ UqIdle /\ EvIdle
SelNext ==
    \/ CollectGolden
       /\ UNCHANGED <<fpVars, simVars, useVars, cmpVars, ldVars, batVars, vdVars,
                    uqVars, evVars>>
    \/ FirstPass
       /\ UNCHANGED <<fpVars, simVars, useVars, cmpVars, ldVars, batVars, vdVars,
                    uqVars, evVars>>
    \/ SecondPass
       /\ UNCHANGED <<fpVars, simVars, useVars, cmpVars, ldVars, batVars, vdVars,
                    uqVars, evVars>>
    \/ Fill
       /\ UNCHANGED <<fpVars, simVars, useVars, cmpVars, ldVars, batVars, vdVars,
                    uqVars, evVars>>
    \/ VerifyAndSave
       /\ UNCHANGED <<fpVars, simVars, useVars, cmpVars, ldVars, batVars, vdVars,
                    uqVars, evVars>>
    \/ FinalSummary
       /\ UNCHANGED <<fpVars, simVars, useVars, cmpVars, ldVars, batVars, vdVars,
                    uqVars, evVars>>
SpecSelector == InitSelector /\ [][SelNext]_vars

InitEvalCheck == EvInit /\ FpIdle /\ SimIdle /\ UseIdle /\ CmpIdle
                 /\ LdIdle /\ BatIdle /\ VdIdle /\ UqIdle /\ SelIdle
EvNext ==
    \/ CompareWithEval
       /\ UNCHANGED <<fpVars, simVars, useVars, cmpVars, ldVars, batVars, vdVars,
                    uqVars, selVars>>
    \/ CheckMinerFile
       /\ UNCHANGED <<fpVars, simVars, useVars, cmpVars, ldVars, batVars, vdVars,
                    uqVars, selVars>>
SpecEvalCheck == InitEvalCheck /\ [][EvNext]_vars

-----------------------------------------------------------------------------
(* Claims about the canonicalizer and the similarity engine.               *)

\* Number of occurrences of record r in collection c.
Occurrences(c, r) == Cardinality({i \in 1..Len(c) : c[i] = r})

\* d holds the records of c, each as often as c does, in any order.
IsReordering(c, d) ==
    /\ Len(c) = Len(d)
    /\ \A r \in Pool : Occurrences(c, r) = Occurrences(d, r)

\* d is c with one more copy of one of c's records, in any order.
HasExtraCopy(c, d) ==
    \E i \in 1..Len(c) : IsReordering(Append(c, c[i]), d)

\* C1: count_similar(A, B) equals count_similar(B, A) for all collections
\* A and B.
C1_OverlapSymmetric ==
    simAB # None => Val(simAB) = Val(simBA)

\* C1 witness: the two directions were computed for collections of
\* different length that share a record.
C1_Witness ==
    /\ simAB # None
    /\ Len(colA) # Len(colB)
    /\ Val(simAB) > 0

\* C2: 0 <= count_similar(A, B) <= min(len(A), len(B)), repeated records
\* and empty collections included.
C2_OverlapBounds ==
    simAB # None =>
        /\ 0 <= Val(simAB)
        /\ Val(simAB) <= Min(Len(colA), Len(colB))
        /\ 0 <= Val(simBA)
        /\ Val(simBA) <= Min(Len(colA), Len(colB))

\* C2 witness: A repeats a record that B holds once, and the count reaches
\* the upper bound len(B).
C2_Witness ==
    /\ simAB # None
    /\ Len(colB) = 1
    /\ Occurrences(colA, colB[1]) >= 2
    /\ Val(simAB) = 1

\* C3: two records have the same fingerprint if and only if they have the
\* same key/value structure, whatever the insertion order of their keys at
\* any nesting level.
C3_FingerprintCanonical ==
    fpc = "done" => ((Struct(rec1) = Struct(rec2)) <=> (fp1 = fp2))

\* C3 witness: two records that differ only in the key order of a nested
\* dict were fingerprinted, and to the same text.
C3_Witness ==
    /\ fpc = "done"
    /\ fp1 = fp2
    /\ Len(rec1.items) = 2 /\ Len(rec2.items) = 2
    /\ \A i \in 1..2 : rec1.items[i].k = rec2.items[i].k
    /\ \E i \in 1..2 : rec1.items[i].v # rec2.items[i].v

\* C4: the text get_dataset_hash digests is the same for a collection and
\* for every reordering of it.
C4_HashOrderInvariant ==
    (hashA # None /\ IsReordering(colA, colB)) => hashA = hashB

\* C4 witness: a collection with two different fingerprints and a
\* different ordering of it were digested.
C4_Witness ==
    /\ hashA # None
    /\ IsReordering(colA, colB)
    /\ colA # colB
    /\ Cardinality(jsonl_to_set(colA)) = 2

\* C5: the text get_dataset_hash digests changes when one more copy of a
\* record of a non-empty collection is added.
C5_HashMultiplicitySensitive ==
    (hashA # None /\ HasExtraCopy(colA, colB)) => hashA # hashB

\* C5 witness: a collection and the same collection with one record
\* duplicated were digested.
C5_Witness ==
    /\ hashA # None
    /\ Len(colA) = 2
    /\ HasExtraCopy(colA, colB)

\* C6: find_entry_positions returns a list sorted ascending that holds no
\* position twice, also for a miner collection that repeats a record.
C6_PositionsSortedUnique ==
    positions # None =>
        \A i, j \in 1..Len(Val(positions)) :
            i < j => Val(positions)[i] < Val(positions)[j]

-----------------------------------------------------------------------------
(* Claims about the usage-frequency count and the golden test.             *)

\* Number of collections analyzed by the iterations done so far.
AnalyzedSoFar ==
    Cardinality({k \in 1..(uid_pos - 1) : miner_files[top_miner_uids[k]] # None})

\* C7: one analyzed collection adds at most 1 to the count of a reference
\* position, so no count exceeds the number of analyzed collections.
C7_CountAtMostCollections ==
    \A i \in 1..Len(entry_counts) : entry_counts[i].count <= AnalyzedSoFar

\* C8: a reference position is returned as golden if and only if its usage
\* count is at least ceil(min_usage_pct/100 * analyzed collections).
C8_GoldenIffCeil ==
    (golden # None /\ total_miners > 0) =>
        \A p \in 0..(Len(eval_data) - 1) :
            (\E e \in Range(Val(golden)) : e.idx = p)
            <=> GetCount(entry_counts, p)
                    >= min_count_ceil(total_miners, min_usage_pct)

\* C24: the golden test divides by the number of collections analyzed, not
\* by the number of uids requested: in find_golden_entries and in the
\* summary of analyze_top_miners, the positions kept are those whose count
\* reaches the share of the analyzed collections, whatever the number of
\* requested uids without data file.
C24_DenominatorIsAnalyzed ==
    /\ golden # None =>
          \A e \in Range(entry_counts) :
             (e \in Range(Val(golden)))
             <=> e.count >= min_count(AnalyzedSoFar, min_usage_pct)
    /\ highly_used # None =>
          \A e \in Range(entry_counts) :
             (e \in Val(highly_used)) <=> 2 * e.count >= AnalyzedSoFar

-----------------------------------------------------------------------------
(* Claims about the duplicate-grouping loop.                               *)

Overlap(a, b) == count_similar(miner_datasets[a], miner_datasets[b])

InSomeGroup(m) ==
    \E g \in 1..Len(duplicate_groups) : m \in Range(duplicate_groups[g])

\* C9: with miner_i as seed, miner_j joins the group if and only if it is
\* not processed, is not miner_i, and its overlap with miner_i is strictly
\* greater than the threshold.
C9_JoinRule ==
    cpc = "inner" =>
        /\ Head(similar_miners) = keys[i_pos]
        /\ \A k \in 1..Len(keys) :
              (keys[k] \in Range(Tail(similar_miners)))
              <=> /\ k < j_pos
                  /\ keys[k] \notin processed
                  /\ keys[k] # keys[i_pos]
                  /\ Overlap(keys[i_pos], keys[k]) > threshold

\* C9 witness: an inner loop has ended in which one unprocessed miner with
\* an overlap above the threshold joined and another, whose overlap equals
\* the threshold of 1, did not.
C9_Witness ==
    /\ cpc = "inner"
    /\ j_pos > Len(keys)
    /\ threshold = 1
    /\ \E a, b \in DOMAIN miner_datasets \ (processed \cup {keys[i_pos]}) :
          /\ Overlap(keys[i_pos], a) = threshold
          /\ a \notin Range(similar_miners)
          /\ b \in Range(similar_miners)

\* C10: when the grouping loop is over, every loaded miner is processed,
\* no miner is in two duplicate groups or twice in one, and the miners in
\* no group are singletons: "Unique datasets" counts the clusters, and
\* with "Duplicated miners" it adds up to the number of loaded miners.
C10_Partition ==
    cpc = "done" =>
        /\ processed = DOMAIN miner_datasets
        /\ \A g, h \in 1..Len(duplicate_groups) :
              \A m \in 1..Len(duplicate_groups[g]) :
                 \A n \in 1..Len(duplicate_groups[h]) :
                    (g # h \/ m # n)
                        => duplicate_groups[g][m] # duplicate_groups[h][n]
        /\ \A g \in 1..Len(duplicate_groups) :
              Range(duplicate_groups[g]) \subseteq DOMAIN miner_datasets
        /\ Val(summary).unique_miners
              = Len(duplicate_groups)
                + Cardinality({m \in DOMAIN miner_datasets : ~InSomeGroup(m)})
        /\ Val(summary).unique_miners + Val(summary).dup_miners
              = Cardinality(DOMAIN miner_datasets)

\* C10 witness: the loop is over with a duplicate group and a singleton
\* whose overlap with a member of that group is above the threshold.
C10_Witness ==
    /\ cpc = "done"
    /\ \E m, s \in DOMAIN miner_datasets :
          /\ InSomeGroup(m)
          /\ ~InSomeGroup(s)
          /\ Overlap(s, m) > threshold

\* C11: clustering is transitive.  When the loop is over, any three loaded
\* miners a, b, c with overlap(a, b) and overlap(b, c) above the threshold
\* and overlap(a, c) = 0 are members of one duplicate group, whatever
\* their places in the processing order.
C11_Transitive ==
    cpc = "done" =>
        \A a, b, c \in DOMAIN miner_datasets :
           (/\ Overlap(a, b) > threshold
            /\ Overlap(b, c) > threshold
            /\ Overlap(a, c) = 0)
           => \E g \in 1..Len(duplicate_groups) :
                 {a, b, c} \subseteq Range(duplicate_groups[g])

\* C26: when the loop is over, a miner reported "Unique" (in no duplicate
\* group) has an overlap of at most the threshold with every other loaded
\* miner, and a miner reported "In duplicate group" has an overlap above
\* the threshold with another member of its group.
C26_StatusMatchesOverlap ==
    cpc = "done" =>
        \A m \in DOMAIN miner_datasets :
           /\ ~InSomeGroup(m) =>
                 \A o \in DOMAIN miner_datasets \ {m} :
                    Overlap(m, o) <= threshold
           /\ InSomeGroup(m) =>
                 \E g \in 1..Len(duplicate_groups) :
                    /\ m \in Range(duplicate_groups[g])
                    /\ \E o \in Range(duplicate_groups[g]) \ {m} :
                          Overlap(m, o) > threshold

-----------------------------------------------------------------------------
(* Claims about the loaders.                                               *)

\* The records of the lines of a file that hold valid JSON, in file order.
RECURSIVE ValidRecords(_)
ValidRecords(file_lines) ==
    IF file_lines = <<>> THEN <<>>
    ELSE (IF Head(file_lines).rec = None THEN <<>> ELSE Head(file_lines).rec)
         \o ValidRecords(Tail(file_lines))

\* C17: whichever module's load_jsonl reads the file (no max_rows given),
\* a malformed line is recovered locally: the call does not raise and
\* returns exactly the records of the valid lines, in file order.
C17_LoadersSkipMalformed ==
    (ld_result # None /\ ld_max_rows = None) =>
        /\ ~Val(ld_result).raised
        /\ Val(ld_result).data = ValidRecords(ld_lines)

-----------------------------------------------------------------------------
(* Claims about the per-unit loops.                                        *)

\* C18: in each per-unit loop no unit's missing file or collaborator
\* exception stops the loop: the units visited so far are the first ones
\* of the list, each once and in order, each visited unit is counted in
\* exactly one of downloaded/successful, failed, skipped, and when the
\* summary is printed the three counts add up to the number of units.
C18_EveryUnitCountedOnce ==
    bpc \in {"loop", "done"} =>
        /\ bat_visited = SubSeq(bat_units, 1, bat_pos - 1)
        /\ \A k \in 1..Len(bat_visited) :
              Occurrences(bat_downloaded, bat_visited[k])
              + Occurrences(bat_failed, bat_visited[k])
              + Occurrences(bat_skipped, bat_visited[k]) = 1
        /\ Len(bat_downloaded) + Len(bat_failed) + Len(bat_skipped)
              = Len(bat_visited)
        /\ bpc = "done" => Len(bat_visited) = Len(bat_units)

\* C18 witness: a summary is printed after a loop in which one unit failed
\* and a later unit was still visited and counted as successful.
C18_Witness ==
    /\ bpc = "done"
    /\ \E f \in Range(bat_failed), d \in Range(bat_downloaded) : f < d

-----------------------------------------------------------------------------
(* Claims about the duplicate verdicts.                                    *)

\* C19: every tool reports a duplicate / high overlap only for an overlap
\* strictly greater than the threshold of 100: for an overlap of exactly
\* 100 the selector's verification prints no high-overlap warning,
\* check_miner_vs_eval does not give the status 'MAJOR DUPLICATE (>100
\* entries)', and prepare_unique_dataset prints no threshold warning.
C19_StrictlyGreaterEverywhere ==
    /\ (vd_selector # None /\ Val(vd_selector)) => vd_overlap > 100
    /\ (vd_check # None
        /\ Val(vd_check).status = "MAJOR DUPLICATE (>100 entries)")
          => vd_overlap > 100
    /\ (vd_unique # None /\ Val(vd_unique)) => vd_overlap > 100

-----------------------------------------------------------------------------
(* Claims about prepare_unique_dataset.                                    *)

\* C20: every entry prepare_unique_dataset writes to its output file is an
\* evaluation entry whose fingerprint occurs in no existing miner dataset,
\* also when fewer than num_entries completely unused entries exist.
C20_WrittenEntriesUnused ==
    uq_written # None =>
        \A k \in 1..Len(Val(uq_written)) :
           /\ json_dumps(Val(uq_written)[k]) \in jsonl_to_set(uq_eval)
           /\ \A m \in 1..Len(uq_miners) :
                 json_dumps(Val(uq_written)[k]) \notin jsonl_to_set(uq_miners[m])

\* C21: the list find_unique_entries builds never holds more than
\* num_needed entries and its overlap with every miner dataset is at most
\* duplicate_threshold, after phase 3 and after every step of the fallback
\* loop that appends already-used candidates.
C21_ResultWithinThreshold ==
    uqpc \in {"fallback", "returned", "written", "error"} =>
        /\ Len(uq_selected) <= uq_num_needed
        /\ \A m \in 1..Len(uq_miners) :
              count_similar(uq_selected, uq_miners[m]) <= uq_threshold

\* C21 witness: the fallback loop has appended an already-used candidate
\* under a threshold of 1 and returned fewer than num_needed entries,
\* having refused a candidate.
C21_Witness ==
    /\ uqpc = "returned"
    /\ uq_threshold = 1
    /\ Len(uq_selected) < uq_num_needed
    /\ uq_cand_pos > 2
    /\ \E k \in 1..Len(uq_selected) :
          json_dumps(uq_selected[k]) \in all_used_entries(uq_miners)

-----------------------------------------------------------------------------
(* Claims about sort_dataset_file.                                         *)

\* The records on the non-blank lines of a file all of whose non-blank
\* lines parse.
FileRecords(file_lines) ==
    LET kept == SelectSeq(file_lines, LAMBDA l : l.kind = "json")
    IN  [i \in 1..Len(kept) |-> Val(kept[i].rec)]

HasMalformedLine(file_lines) ==
    \E i \in 1..Len(file_lines) : file_lines[i].kind = "malformed"

SameMultiset(d1, d2) ==
    /\ Len(d1) = Len(d2)
    /\ \A i \in 1..Len(d1) : Occurrences(d1, d1[i]) = Occurrences(d2, d1[i])

NonDecreasing(data) ==
    \A i \in 1..(Len(data) - 1) :
       ~StrLess(json_dumps(data[i + 1]), json_dumps(data[i]))

\* A file that holds nothing but records, in non-decreasing order.
AlreadySorted(file_lines) ==
    /\ file_lines # <<>>
    /\ \A i \in 1..Len(file_lines) : file_lines[i].kind = "json"
    /\ NonDecreasing(FileRecords(file_lines))

\* What one call of sort_dataset_file on directory d did to its file.
SortStepOk(d) ==
    LET before == Val(bat_files[d])
        after  == Val(bat_files'[d])
        ok     == bat_downloaded' # bat_downloaded
    IN  /\ ok => /\ ~HasMalformedLine(before)
                 /\ SameMultiset(FileRecords(before), FileRecords(after))
                 /\ NonDecreasing(FileRecords(after))
                 /\ combined(FileRecords(after)) = combined(FileRecords(before))
                 /\ AlreadySorted(after)
                 /\ sort_dataset_file(after, FALSE) =
                       [ok |-> TRUE, content |-> after]
        /\ AlreadySorted(before) => (ok => after = before)
        /\ HasMalformedLine(before) => (~ok /\ after = before)

-----------------------------------------------------------------------------
(* Claims about the miner-versus-evaluation check.                         *)

\* Every record of the miner dataset has a fingerprint that occurs in the
\* evaluation dataset.
EntirelyFromEval ==
    \A k \in 1..Len(ev_miner) :
       json_dumps(ev_miner[k]) \in jsonl_to_set(ev_eval)

\* C22: a miner dataset is reported as entirely from the evaluation dataset
\* (the valid mark of compare_datasets, is_complete_duplicate of
\* check_miner_vs_eval) if and only if every record of the miner dataset
\* has a fingerprint that occurs in the evaluation dataset, also when the
\* miner dataset holds a record more than once.
C22_EntirelyFromEvalIff ==
    /\ ev_valid_mark # None => (Val(ev_valid_mark) <=> EntirelyFromEval)
    /\ ev_stats # None
          => (Val(ev_stats).is_complete_duplicate <=> EntirelyFromEval)

-----------------------------------------------------------------------------
(* Claims about the constrained selector.                                  *)

\* The fingerprint of the evaluation record at 0-based position p.
FpAt(p) == json_dumps(sel_eval[p + 1])

\* The fingerprints of the existing participant collections.
ParticipantFingerprints == used_entries(sel_dir_files)

\* The positions selected by the two golden passes, and by the fill.
GoldenPart == SubSeq(selected_positions, 1, golden_added)
FillPart   == SubSeq(selected_positions, golden_added + 1,
                     Len(selected_positions))

\* The fill phase is over.
Filled == spc \in {"verify", "summary", "raised", "returned"}

\* The positions the fill may take: not taken by a golden pass and, when
\* uniqueness is ensured, with a fingerprint no participant uses.
FillCandidates ==
    {i \in 0..(Len(sel_eval) - 1) :
        /\ i \notin Range(GoldenPart)
        /\ sel_ensure_unique => FpAt(i) \notin ParticipantFingerprints}

\* The number of analyzed top-miner collections that use position p.
UsageCount(p) ==
    GetCount(entry_counts_after(sel_eval, sel_top_files, Len(top_miner_uids)), p)

\* Two golden positions are of the same kind: both unused by the existing
\* participants, or both used by one.
SameKind(p, q) ==
    (FpAt(p) \in used_entries_set) <=> (FpAt(q) \in used_entries_set)

\* The two golden passes are over.
PassesOver == spc \in {"fill", "verify", "summary", "raised", "returned"}

\* C25: golden entries are taken in non-increasing order of usage count in
\* both golden passes: once the passes are over, every golden position they
\* selected has a usage count at least that of every golden position of the
\* same kind they left out.
C25_GoldenByUsage ==
    PassesOver =>
        \A p \in Range(GoldenPart) :
           \A q \in Range(golden_indices) \ Range(GoldenPart) :
              SameKind(p, q) => UsageCount(p) >= UsageCount(q)

\* C25 witness: the reused pass was stopped by the cap and left out a used
\* golden position whose usage count is lower than that of a selected one.
C25_Witness ==
    /\ PassesOver /\ sel_ensure_unique
    /\ golden_reused = sel_reused_cap
    /\ \E p \in Range(GoldenPart) :
          \E q \in Range(golden_indices) \ Range(GoldenPart) :
             /\ SameKind(p, q) /\ FpAt(p) \in used_entries_set
             /\ UsageCount(p) > UsageCount(q)

\* C27: prepare_golden_dataset completes normally and returns the output
\* path for every input, also when no golden entry is found and the
\* selection is built from fill entries only.
C27_AlwaysReturns == spc # "raised"

\* The analyzed top-miner collections are among the participant
\* collections scanned into the used-entries set.
TopAmongScanned ==
    \A u \in DOMAIN sel_top_files :
       sel_top_files[u] # None => sel_dir_files[u] = sel_top_files[u]

\* The golden positions held by the selection.
GoldenSelected == Range(selected_positions) \cap Range(golden_indices)

\* C28: when uniqueness is ensured and the analyzed top-miner collections
\* are among the scanned participant collections, every golden entry is in
\* the used-entries set, the golden-unique pass adds nothing and the
\* selection holds at most the reused cap (80) of golden entries, however
\* many golden entries there are.
C28_GoldenAllReused ==
    (sel_ensure_unique /\ TopAmongScanned /\ spc # "start") =>
        /\ \A p \in Range(golden_indices) : FpAt(p) \in used_entries_set
        /\ golden_unique = 0
        /\ golden_added = golden_reused
        /\ golden_reused <= sel_reused_cap
        /\ Cardinality(GoldenSelected) <= sel_reused_cap

\* C28 witness: a finished run in that mode with more golden entries than
\* the cap, target_size above the cap, and the cap reached.
C28_Witness ==
    /\ sel_ensure_unique /\ TopAmongScanned /\ spc = "returned"
    /\ Len(golden_indices) > sel_reused_cap
    /\ sel_target_size > sel_reused_cap
    /\ golden_unique = 0
    /\ Cardinality(GoldenSelected) = sel_reused_cap

\* count_similar of the selection built so far with the collection of
\* participant directory d.
SelectionOverlap(d) == count_similar(selected_entries, Val(sel_dir_files[d]))

\* C29: when uniqueness is ensured, the overlap of the selection with any
\* single participant collection is at most the number of reused golden
\* entries selected, which is at most the cap; no overlap up to the cap of
\* 80 is reported as high, so "High overlap detected" is not printed.
C29_OverlapWithinReused ==
    sel_ensure_unique =>
        /\ \A d \in DOMAIN sel_dir_files :
              sel_dir_files[d] # None => SelectionOverlap(d) <= golden_reused
        /\ golden_reused <= sel_reused_cap
        /\ sel_reused_cap <= max_reused_golden
        /\ \A n \in 0..max_reused_golden : ~selector_high_overlap(n)
        /\ sel_high_overlap # None => ~Val(sel_high_overlap)

\* C29 witness: a verified selection in that mode which holds a reused
\* golden entry, a fill entry, and overlaps a participant collection.
C29_Witness ==
    /\ sel_ensure_unique /\ spc = "returned" /\ sel_high_overlap = Some(FALSE)
    /\ golden_reused = 1
    /\ Len(selected_entries) > golden_added
    /\ \E d \in DOMAIN sel_dir_files :
          sel_dir_files[d] # None /\ SelectionOverlap(d) = golden_reused

\* C30: the selection holds no two records with the same fingerprint, also
\* when the evaluation collection holds a record at several positions,
\* with uniqueness ensured or not.
C30_NoRepeatedFingerprint ==
    \A i, j \in 1..Len(selected_entries) :
       i # j => json_dumps(selected_entries[i]) # json_dumps(selected_entries[j])

\* C12: the selection never holds more than target_size entries; after the
\* fill it holds exactly target_size entries when the golden entries added
\* plus the fill candidates reach target_size, and otherwise it holds all
\* fill candidates, is shorter than target_size and the shortfall is
\* reported; the selection is what is written, without padding.
C12_SelectionSize ==
    spc # "idle" =>
        /\ Len(selected_entries) <= sel_target_size
        /\ Filled =>
              IF golden_added + Cardinality(FillCandidates) >= sel_target_size
              THEN /\ Len(selected_entries) = sel_target_size
                   /\ ~sel_shortfall
              ELSE /\ FillCandidates \subseteq Range(FillPart)
                   /\ Len(selected_entries) < sel_target_size
                   /\ sel_shortfall
        /\ sel_output # None => Val(sel_output) = selected_entries

\* C12 witness: a selection with golden and fill entries was written that
\* is shorter than target_size, the shortfall having been reported.
C12_Witness ==
    /\ sel_output # None
    /\ sel_shortfall
    /\ golden_added > 0
    /\ FillPart # <<>>
    /\ Len(Val(sel_output)) < sel_target_size

\* Number of selected golden entries whose fingerprint occurs in some
\* existing participant collection.
ReusedGoldenSelected ==
    Cardinality({k \in 1..golden_added :
                    FpAt(selected_positions[k]) \in ParticipantFingerprints})

\* C13: in every run, uniqueness ensured or not, the number of selected
\* golden entries whose fingerprint occurs in some existing participant
\* collection never exceeds the cap max_reused_golden.
C13_ReusedCapInEveryRun ==
    spc # "idle" => ReusedGoldenSelected <= sel_reused_cap

\* The phase a selected position belongs to: 1 for a golden position whose
\* fingerprint is not in the used-entries set, 2 for a golden position whose
\* fingerprint is in it, 3 for any other position.
PhaseOf(p) ==
    IF p \in Range(golden_indices)
    THEN (IF FpAt(p) \notin used_entries_set THEN 1 ELSE 2)
    ELSE 3

C15_FillWithoutReplacement ==
    spc # "idle" =>
        /\ \A i, j \in 1..Len(selected_positions) :
              i # j => selected_positions[i] # selected_positions[j]
        /\ sel_ensure_unique =>
              \A k \in 1..Len(FillPart) :
                 FpAt(FillPart[k]) \notin ParticipantFingerprints

\* C15 witness: a run ensuring uniqueness has filled two slots or more
\* after a golden entry, while a position used by a participant was
\* neither a golden selection nor a fill entry.
C15_Witness ==
    /\ Filled
    /\ sel_ensure_unique
    /\ golden_added > 0
    /\ Len(FillPart) >= 2
    /\ \E i \in 0..(Len(sel_eval) - 1) :
          /\ i \notin Range(selected_positions)
          /\ FpAt(i) \in ParticipantFingerprints

\* The end-to-end scenario with K first records: the evaluation records are
\* distinct, at least one participant has a collection, every collection
\* is the first K evaluation records and is both analyzed and scanned,
\* K <= max_reused_golden, K < target_size <= N, min_golden_pct = 50.
FirstRecordsScenario(K) ==
    /\ Cardinality(jsonl_to_set(sel_eval)) = Len(sel_eval)
    /\ \E u \in 1..NumUids : sel_top_files[u] # None
    /\ \A u \in 1..NumUids :
          sel_top_files[u] # None
             => Val(sel_top_files[u]) = SubSeq(sel_eval, 1, K)
    /\ sel_dir_files = sel_top_files
    /\ K <= sel_reused_cap
    /\ K < sel_target_size
    /\ sel_target_size <= Len(sel_eval)
    /\ sel_min_pct = 50

\* Number of participant collections.
ParticipantCount ==
    Cardinality({u \in 1..NumUids : sel_top_files[u] # None})

\* C16: in the scenario, the usage count of each of positions 0..K-1 is the
\* number M of collections and that of every other position is 0, and the
\* selector selects positions 0..K-1 and target_size - K further positions,
\* all of them from K..N-1.
C16_EndToEnd ==
    spc # "idle" =>
        \A K \in 1..Len(sel_eval) :
           FirstRecordsScenario(K) =>
              /\ \A q \in 0..(Len(sel_eval) - 1) :
                    GetCount(entry_counts_after(sel_eval, sel_top_files,
                                                Len(top_miner_uids)), q)
                       = IF q < K THEN ParticipantCount ELSE 0
              /\ Filled =>
                    /\ 0..(K - 1) \subseteq Range(selected_positions)
                    /\ Range(selected_positions) \ (0..(K - 1))
                          \subseteq K..(Len(sel_eval) - 1)
                    /\ Cardinality(Range(selected_positions) \ (0..(K - 1)))
                          = sel_target_size - K
                    /\ Len(selected_positions) = sel_target_size

\* C16 witness: the scenario with K = 2, two collections or more, N = 4 and
\* target_size = 3 has been run to the written file.
C16_Witness ==
    /\ sel_output # None
    /\ FirstRecordsScenario(2)
    /\ ParticipantCount >= 2
    /\ Len(sel_eval) = 4
    /\ sel_target_size = 3

=============================================================================
